---- MODULE Spec2Model ----
(***************************************************************************)
(* State-machine model of the decision/execution core of the NSE trading   *)
(* engine: PortfolioState (portfolio/state.py), RiskManager                *)
(* (portfolio/risk_manager.py), SignalGenerator's cooldown gate            *)
(* (analysis/signal_generator.py), Trade / TradeLifecycleManager           *)
(* (execution/trade_lifecycle.py) and RuleDrivenExecutionEngine            *)
(* (execution/execution_engine.py).                                        *)
(*                                                                         *)
(* Money and prices are integers counted in paise (1/100 rupee); the       *)
(* percentages of the source are applied with exact integer arithmetic on  *)
(* input sets for which the products are whole numbers.                    *)
(***************************************************************************)
EXTENDS Integers, Sequences, FiniteSets, TLC

\* ------------------------------------------------------------------------
\* Bounds of the model and configuration of the program
\* ------------------------------------------------------------------------

Symbols == {"A", "B"}

PositionTypes == {"LONG", "SHORT"}

\* PortfolioState(initial_capital, ...): 1000.00 rupees, in paise
initial_capital == 100000

\* prices fed to the portfolio operations (paise)
Prices == {1000, 1040, 2110}

\* share quantities fed to add_position by its direct callers
Quantities == {10, 100}

\* last traded prices at which the direct callers open positions (paise)
EntryPrices == {1000}

NoTarget == 0

\* RiskManager configuration (config.get(...) of RiskManager.__init__); the
\* position and per-stock limits are configured to 1
max_capital_per_trade_pct == 10
max_daily_loss_pct == 3
max_open_positions == 1
rm_risk_per_trade_pct_x10 == 15
max_trades_per_stock_per_day == 1

\* RuleDrivenExecutionEngine(min_confidence=70.0, min_rr=2.0,
\* risk_per_trade_pct=1.0); ratios and percentages in tenths
min_confidence == 70
min_rr_x10 == 20
risk_per_trade_pct_x10 == 10

\* generate_signal(..., cooldown_minutes=60)
cooldown_minutes == 60

\* the clock advances in steps of TickMinutes, up to MaxTicks steps a day,
\* over the days 0..MaxDay
MinutesPerDay == 1440
TickMinutes == 30
MaxTicks == 2
MaxDay == 1

\* at most MaxTrades Trade objects are created
MaxTrades == 2

TimeFrames == {"5m", "15m"}

SignalTypes == {"BUY", "SELL", "HOLD"}

\* at most MaxDbTrades positions are ever inserted
MaxDbTrades == 2

\* a Trade's stage_history holds at most MaxHistory entries when its methods
\* are called directly, at most MaxEngineHistory under the engine
MaxHistory == 6
MaxEngineHistory == 6

\* prices at which positions are marked and closed under the engine and
\* the risk manager
EnginePrices == {690, 1310}

VARIABLES
    \* PortfolioState
    total_capital, available_capital, invested_capital,
    unrealized_pnl, realized_pnl, positions, peak_capital,
    \* TradingDatabase: the number of rows insert_trade has added
    db_trades,
    \* RiskManager
    today_start_capital, today_trades, last_reset_date, trading_halted,
    \* SignalGenerator
    last_signal_time,
    \* TradeLifecycleManager (the Trade objects live in these collections)
    active_trades, completed_trades, next_trade_id,
    \* the wall clock (datetime.now()), in minutes
    now,
    \* the trade orders evaluate_trade_opportunity has returned to its caller
    orders,
    \* the add_position calls that have passed their checks and have not yet
    \* stored their position (calls made from different threads)
    in_flight,
    \* the most recent call of a public operation and what it returned
    last_call,
    \* observers of the call history: the methods called on each Trade, the
    \* times at which generate_signal returned a Signal for each
    \* (symbol, timeframe), the days on which check_daily_loss_limit has
    \* returned False, and the execute_trade calls that returned True for
    \* each symbol on the current day
    trade_calls, emitted, halted_days, accepted_today

portfolio_vars == <<total_capital, available_capital, invested_capital,
                    unrealized_pnl, realized_pnl, positions, peak_capital,
                    db_trades>>

risk_vars == <<today_start_capital, today_trades, last_reset_date, trading_halted>>

lifecycle_vars == <<active_trades, completed_trades, next_trade_id>>

observer_vars == <<trade_calls, emitted, halted_days, accepted_today>>

vars == <<portfolio_vars, risk_vars, last_signal_time, lifecycle_vars, now,
          orders, in_flight, last_call, observer_vars>>

\* ------------------------------------------------------------------------
\* Helpers
\* ------------------------------------------------------------------------

Abs(x) == IF x < 0 THEN -x ELSE x

Max2(a, b) == IF a >= b THEN a ELSE b

Min2(a, b) == IF a <= b THEN a ELSE b

\* dict[key] = value
DictPut(d, k, v) == [x \in (DOMAIN d) \cup {k} |-> IF x = k THEN v ELSE d[x]]

\* del dict[key]
DictDel(d, k) == [x \in (DOMAIN d) \ {k} |-> d[x]]

\* dict.get(key, default)
DictGet(d, k, default) == IF k \in DOMAIN d THEN d[k] ELSE default

EmptyDict == [x \in {} |-> 0]

RECURSIVE SumOver(_, _)
\* sum(f[x] for x in S)
SumOver(f, S) ==
    IF S = {} THEN 0
    ELSE LET x == CHOOSE y \in S : TRUE IN f[x] + SumOver(f, S \ {x})

\* round(n / d) to the nearest integer, ties to even (Python's round)
RoundDiv(n, d) ==
    LET q == n \div d
        r == n % d
    IN  IF 2 * r < d THEN q
        ELSE IF 2 * r > d THEN q + 1
        ELSE IF q % 2 = 0 THEN q ELSE q + 1

Call(op, sym, ret) == [op |-> op, sym |-> sym, tf |-> "", ret |-> ret]

\* ------------------------------------------------------------------------
\* PortfolioState
\* ------------------------------------------------------------------------

PortfolioInit ==
    /\ total_capital = initial_capital
    /\ invested_capital = 0
    /\ available_capital = initial_capital
    /\ unrealized_pnl = 0
    /\ realized_pnl = 0
    /\ positions = EmptyDict
    /\ peak_capital = initial_capital
    /\ db_trades = 0

\* what a PortfolioState method leaves alone
PortfolioFrame ==
    UNCHANGED <<risk_vars, last_signal_time, lifecycle_vars, now, orders, in_flight,
                observer_vars>>

\* the position dict built by add_position
NewPosition(symbol, position_type, quantity, entry_price, stop_loss, target) ==
    [trade_id |-> db_trades + 1,
     symbol |-> symbol,
     position_type |-> position_type,
     quantity |-> quantity,
     entry_price |-> entry_price,
     current_price |-> entry_price,
     stop_loss |-> stop_loss,
     target |-> target,
     investment |-> quantity * entry_price,
     unrealized_pnl |-> 0]

\* a faulty guard that does not look for an existing position
AddPositionOk_NoDuplicateCheck(symbol, quantity, entry_price, db_ok) ==
    /\ quantity * entry_price <= available_capital
    /\ db_ok

\* the guard of add_position: no position for the symbol, the investment is
\* covered by available_capital, and the persistence insert did not raise
AddPositionOk(symbol, quantity, entry_price, db_ok) ==
    /\ symbol \notin DOMAIN positions
    /\ quantity * entry_price <= available_capital
    /\ db_ok

\* the state change of a successful add_position
AddPositionEffect(symbol, position_type, quantity, entry_price, stop_loss, target) ==
    /\ positions' = DictPut(positions, symbol,
            NewPosition(symbol, position_type, quantity, entry_price,
                        stop_loss, target))
    /\ available_capital' = available_capital - quantity * entry_price
    /\ invested_capital' = invested_capital + quantity * entry_price
    /\ db_trades' = db_trades + 1
    /\ UNCHANGED <<total_capital, unrealized_pnl, realized_pnl, peak_capital>>

add_position(symbol, position_type, quantity, entry_price, stop_loss, target, db_ok) ==
    /\ PortfolioFrame
    /\ IF AddPositionOk(symbol, quantity, entry_price, db_ok)
       THEN /\ db_trades < MaxDbTrades
            /\ AddPositionEffect(symbol, position_type, quantity, entry_price,
                                 stop_loss, target)
            /\ last_call' = Call("add_position", symbol, "True")
       ELSE /\ UNCHANGED portfolio_vars
            /\ last_call' = Call("add_position", symbol, "False")

\* unrealized / final P&L of a position at a price
PositionPnl(position, price) ==
    IF position.position_type = "LONG"
    THEN (price - position.entry_price) * position.quantity
    ELSE (position.entry_price - price) * position.quantity

\* the trailing stop-loss logic of update_position_price: the stop_loss the
\* position carries after the update.  cent is the number of money units in
\* 0.01, the step round(new_sl, 2) rounds to
TrailedStopIn(cent, position, current_price) ==
    LET sl == position.stop_loss
        entry == position.entry_price
        target1 == position.target
    IN  IF sl = 0 THEN sl
        ELSE IF position.position_type = "LONG"
        THEN LET be == IF target1 # NoTarget /\ current_price >= target1 /\ sl < entry
                       THEN entry ELSE sl
                 \* pct_gain > 2.0
                 gain == (current_price - entry) * 100 > 2 * entry
                 new_sl == RoundDiv(current_price * 985, 1000 * cent) * cent
             IN  IF gain /\ current_price * 985 > sl * 1000 THEN new_sl ELSE be
        ELSE LET be == IF target1 # NoTarget /\ current_price <= target1 /\ sl > entry
                       THEN entry ELSE sl
                 gain == (entry - current_price) * 100 > 2 * entry
                 new_sl == RoundDiv(current_price * 1015, 1000 * cent) * cent
             IN  IF gain /\ current_price * 1015 < sl * 1000 THEN new_sl ELSE be

\* the trailing stop-loss with money counted in units of 0.01
TrailedStop(position, current_price) == TrailedStopIn(1, position, current_price)

update_position_price_in(cent, symbol, current_price) ==
    /\ PortfolioFrame
    /\ IF symbol \notin DOMAIN positions
       THEN UNCHANGED positions
       ELSE positions' = [positions EXCEPT ![symbol] =
                [@ EXCEPT !.current_price = current_price,
                          !.unrealized_pnl = PositionPnl(positions[symbol], current_price),
                          !.stop_loss = TrailedStopIn(cent, positions[symbol],
                                                      current_price)]]
    /\ UNCHANGED <<total_capital, available_capital, invested_capital,
                   unrealized_pnl, realized_pnl, peak_capital, db_trades>>
    /\ last_call' = Call("update_position_price", symbol, "None")

\* update_position_price with money counted in units of 0.01
update_position_price(symbol, current_price) ==
    update_position_price_in(1, symbol, current_price)

\* a faulty close that returns the proceeds without booking the P&L
close_position_PnlNotBooked(symbol, exit_price) ==
    /\ PortfolioFrame
    /\ IF symbol \notin DOMAIN positions
       THEN /\ UNCHANGED portfolio_vars
            /\ last_call' = Call("close_position", symbol, "None")
       ELSE LET position == positions[symbol]
                pnl == PositionPnl(position, exit_price)
                proceeds == position.investment + pnl
            IN  /\ available_capital' = available_capital + proceeds
                /\ invested_capital' = invested_capital - position.investment
                /\ positions' = DictDel(positions, symbol)
                /\ UNCHANGED <<total_capital, unrealized_pnl, realized_pnl,
                               peak_capital, db_trades>>
                /\ last_call' = Call("close_position", symbol, "trade_result")

close_position(symbol, exit_price) ==
    /\ PortfolioFrame
    /\ IF symbol \notin DOMAIN positions
       THEN /\ UNCHANGED portfolio_vars
            /\ last_call' = Call("close_position", symbol, "None")
       ELSE LET position == positions[symbol]
                pnl == PositionPnl(position, exit_price)
                proceeds == position.investment + pnl
            IN  /\ available_capital' = available_capital + proceeds
                /\ invested_capital' = invested_capital - position.investment
                /\ realized_pnl' = realized_pnl + pnl
                /\ positions' = DictDel(positions, symbol)
                /\ UNCHANGED <<total_capital, unrealized_pnl, peak_capital, db_trades>>
                /\ last_call' = Call("close_position", symbol, "trade_result")

\* calculate_totals, reached through get_portfolio_summary and save_snapshot
calculate_totals ==
    LET u == SumOver([s \in DOMAIN positions |-> positions[s].unrealized_pnl],
                     DOMAIN positions)
        t == available_capital + invested_capital + u
    IN  /\ PortfolioFrame
        /\ unrealized_pnl' = u
        /\ total_capital' = t
        /\ peak_capital' = Max2(peak_capital, t)
        /\ UNCHANGED <<available_capital, invested_capital, realized_pnl, positions,
                       db_trades>>
        /\ last_call' = Call("calculate_totals", "", "None")

\* ------------------------------------------------------------------------
\* The wall clock
\* ------------------------------------------------------------------------

\* datetime.now().date()
Date(t) == t \div MinutesPerDay

ZeroCounts == [s \in Symbols |-> 0]

\* time passes within the day (last_call is the last call made at the
\* current time: it is forgotten when the clock moves)
tick ==
    /\ (now % MinutesPerDay) + TickMinutes <= MaxTicks * TickMinutes
    /\ now' = now + TickMinutes
    /\ last_call' = Call("", "", "None")
    /\ UNCHANGED <<portfolio_vars, risk_vars, last_signal_time, lifecycle_vars,
                   orders, in_flight, trade_calls, emitted, halted_days, accepted_today>>

\* midnight passes
new_day ==
    /\ Date(now) < MaxDay
    /\ now' = (Date(now) + 1) * MinutesPerDay
    /\ accepted_today' = ZeroCounts
    /\ last_call' = Call("", "", "None")
    /\ UNCHANGED <<portfolio_vars, risk_vars, last_signal_time, lifecycle_vars,
                   orders, in_flight, trade_calls, emitted, halted_days>>

\* ------------------------------------------------------------------------
\* RiskManager
\* ------------------------------------------------------------------------

\* the RiskManager's daily state as one value
RM == [today_start_capital |-> today_start_capital,
       today_trades |-> today_trades,
       last_reset_date |-> last_reset_date,
       trading_halted |-> trading_halted]

SetRM(rm) ==
    /\ today_start_capital' = rm.today_start_capital
    /\ today_trades' = rm.today_trades
    /\ last_reset_date' = rm.last_reset_date
    /\ trading_halted' = rm.trading_halted

RiskInit ==
    /\ today_start_capital = initial_capital
    /\ today_trades = EmptyDict
    /\ last_reset_date = 0
    /\ trading_halted = FALSE

reset_daily_counters(rm) ==
    IF Date(now) # rm.last_reset_date
    THEN [today_start_capital |-> total_capital,
          today_trades |-> EmptyDict,
          last_reset_date |-> Date(now),
          trading_halted |-> FALSE]
    ELSE rm

\* daily_loss_pct <= -max_daily_loss_pct, with
\* daily_loss_pct = (total_capital - today_start_capital) / today_start_capital * 100
DailyLossBreached(rm) ==
    (total_capital - rm.today_start_capital) * 100
        <= -(max_daily_loss_pct * rm.today_start_capital)

\* check_daily_loss_limit: the returned value and the RiskManager it leaves
CheckDailyLossLimit(rm) ==
    LET r1 == reset_daily_counters(rm)
    IN  IF DailyLossBreached(r1)
        THEN [ret |-> FALSE, rm |-> [r1 EXCEPT !.trading_halted = TRUE]]
        ELSE [ret |-> TRUE, rm |-> r1]

check_max_positions == Cardinality(DOMAIN positions) < max_open_positions

CheckStockTradeFrequency(rm, symbol) ==
    LET r1 == reset_daily_counters(rm)
    IN  [ret |-> DictGet(r1.today_trades, symbol, 0) < max_trades_per_stock_per_day,
         rm |-> r1]

\* calculate_position_size: confidence-scaled risk budget over the stop
\* distance, capped by max_capital_per_trade_pct and by available_capital
calculate_position_size(entry_price, stop_loss, signal_confidence) ==
    LET risk_per_share == Abs(entry_price - stop_loss)
        \* int(total_capital * (1.5/100) * (0.5 + confidence/100*0.5) / risk_per_share)
        q0 == (total_capital * rm_risk_per_trade_pct_x10 * (100 + signal_confidence))
                  \div (200000 * risk_per_share)
        \* required_investment > total_capital * (max_capital_per_trade_pct/100)
        q1 == IF q0 * entry_price * 100 > total_capital * max_capital_per_trade_pct
              THEN (total_capital * max_capital_per_trade_pct) \div (100 * entry_price)
              ELSE q0
        q2 == IF q1 * entry_price > available_capital
              THEN available_capital \div entry_price
              ELSE q1
    IN  IF risk_per_share = 0
        THEN [quantity |-> 0, investment |-> 0, valid |-> FALSE,
              reason |-> "Invalid stop-loss distance"]
        ELSE IF q2 <= 0
        THEN [quantity |-> 0, investment |-> 0, valid |-> FALSE,
              reason |-> "Insufficient capital"]
        ELSE [quantity |-> q2, investment |-> q2 * entry_price, valid |-> TRUE,
              reason |-> "Position sizing calculated"]

\* validate_trade: the verdict and the RiskManager it leaves
ValidateTrade(rm, symbol, entry_price, stop_loss, confidence) ==
    LET daily == CheckDailyLossLimit(rm)
        freq == CheckStockTradeFrequency(daily.rm, symbol)
        size == calculate_position_size(entry_price, stop_loss, confidence)
    IN  IF ~daily.ret
        THEN [allowed |-> FALSE, rm |-> daily.rm,
              reason |-> "Daily loss limit breached - trading halted"]
        ELSE IF ~check_max_positions
        THEN [allowed |-> FALSE, rm |-> daily.rm,
              reason |-> "Maximum open positions reached"]
        ELSE IF symbol \in DOMAIN positions
        THEN [allowed |-> FALSE, rm |-> daily.rm,
              reason |-> "Position already exists"]
        ELSE IF ~freq.ret
        THEN [allowed |-> FALSE, rm |-> freq.rm,
              reason |-> "Max trades per day reached"]
        ELSE IF ~size.valid
        THEN [allowed |-> FALSE, rm |-> freq.rm,
              reason |-> size.reason]
        ELSE [allowed |-> TRUE, rm |-> freq.rm,
              reason |-> "Trade validated - risk within limits"]

\* a faulty record_trade that does not roll the day over first
RecordTrade_NoReset(rm, symbol) ==
    [rm EXCEPT !.today_trades =
        DictPut(@, symbol, DictGet(rm.today_trades, symbol, 0) + 1)]

\* record_trade: the today_trades it leaves
RecordTrade(rm, symbol) ==
    LET r1 == reset_daily_counters(rm)
    IN  [r1 EXCEPT !.today_trades =
            DictPut(@, symbol, DictGet(r1.today_trades, symbol, 0) + 1)]

\* the days on which check_daily_loss_limit has returned False
NoteHalt(allowed) ==
    halted_days' = IF allowed THEN halted_days ELSE halted_days \cup {Date(now)}

\* a direct call of RiskManager.check_daily_loss_limit
check_daily_loss_limit ==
    LET r == CheckDailyLossLimit(RM)
    IN  /\ SetRM(r.rm)
        /\ NoteHalt(r.ret)
        /\ last_call' = Call("check_daily_loss_limit", "", IF r.ret THEN "True" ELSE "False")
        /\ UNCHANGED <<portfolio_vars, last_signal_time, lifecycle_vars, now,
                       orders, in_flight, trade_calls, emitted, accepted_today>>

\* a direct call of RiskManager.validate_trade
validate_trade(symbol, entry_price, stop_loss, confidence) ==
    LET v == ValidateTrade(RM, symbol, entry_price, stop_loss, confidence)
    IN  /\ SetRM(v.rm)
        /\ NoteHalt(v.reason # "Daily loss limit breached - trading halted")
        /\ last_call' = Call("validate_trade", symbol,
                             IF v.allowed THEN "allowed" ELSE v.reason)
        /\ UNCHANGED <<portfolio_vars, last_signal_time, lifecycle_vars, now,
                       orders, in_flight, trade_calls, emitted, accepted_today>>

\* ------------------------------------------------------------------------
\* SignalGenerator
\* ------------------------------------------------------------------------

\* a faulty cooldown key that ignores the timeframe
CooldownKey_SymbolOnly(symbol, timeframe) == symbol

\* cooldown_key = f"{symbol}_{timeframe}"
CooldownKey(symbol, timeframe) == symbol \o "_" \o timeframe

\* the cooldown gate: a signal was emitted for the key less than
\* cooldown_minutes ago
CooldownActive(lst, key) ==
    /\ key \in DOMAIN lst
    /\ now - lst[key] < cooldown_minutes

\* a faulty generate_signal without the rejection of a HOLD direction
GenerateSignal_NoHoldGate(lst, symbol, timeframe, a) ==
    IF \/ a.candles < 200
       \/ CooldownActive(lst, CooldownKey(symbol, timeframe))
       \/ a.confidence < min_confidence
       \/ a.risk_reward_x10 < min_rr_x10
    THEN [signal |-> FALSE, lst |-> lst]
    ELSE [signal |-> TRUE,
          lst |-> DictPut(lst, CooldownKey(symbol, timeframe), now),
          symbol |-> symbol,
          timeframe |-> timeframe,
          signal_type |-> a.signal_type,
          confidence |-> a.confidence,
          regime |-> a.regime,
          risk_reward_x10 |-> a.risk_reward_x10,
          trend |-> [type |-> a.trend, strength |-> a.strength],
          volatility |-> [atr |-> a.atr, regime |-> a.volatility_regime]]

\* generate_signal on a series whose analysis is a: the Signal (or None) it
\* returns and the last_signal_time it leaves.  a.candles is len(df);
\* a.signal_type, a.confidence, a.regime and a.risk_reward_x10 are what the
\* indicator, regime and confluence analysis of the series yields
GenerateSignal(lst, symbol, timeframe, a) ==
    LET key == CooldownKey(symbol, timeframe)
        none == [signal |-> FALSE, lst |-> lst]
    IN  IF a.candles < 200 THEN none
        ELSE IF CooldownActive(lst, key) THEN none
        ELSE IF a.confidence < min_confidence THEN none
        ELSE IF a.risk_reward_x10 < min_rr_x10 THEN none
        ELSE IF a.signal_type = "HOLD" THEN none
        ELSE [signal |-> TRUE,
              lst |-> DictPut(lst, key, now),
              symbol |-> symbol,
              timeframe |-> timeframe,
              signal_type |-> a.signal_type,
              confidence |-> a.confidence,
              regime |-> a.regime,
              risk_reward_x10 |-> a.risk_reward_x10,
              \* indicators_summary: the keys generate_signal copies
              trend |-> [type |-> a.trend, strength |-> a.strength],
              volatility |-> [atr |-> a.atr, regime |-> a.volatility_regime]]

\* the times at which generate_signal has returned a Signal, per
\* (symbol, timeframe)
NoteEmitted(symbol, timeframe, signal) ==
    emitted' = IF signal
               THEN [emitted EXCEPT ![<<symbol, timeframe>>] = @ \cup {now}]
               ELSE emitted

\* ------------------------------------------------------------------------
\* Trade and TradeLifecycleManager
\* ------------------------------------------------------------------------

\* float('inf'), the initial lowest_price
Infinity == 1000000000

Stages == {"SIGNAL_GENERATED", "VALIDATED", "ENTRY_PENDING", "ENTERED",
           "MONITORING", "PARTIAL_EXIT_1", "PARTIAL_EXIT_2", "TRAILING",
           "EXITED", "REJECTED"}

\* Trade.__init__ (timestamps and free-text fields are not modelled; an
\* entry of stage_history is the stage of the (stage, time, note) tuple)
Trade(trade_id, symbol, signal_type) ==
    [trade_id |-> trade_id,
     symbol |-> symbol,
     signal_type |-> signal_type,
     stage |-> "SIGNAL_GENERATED",
     entry_price |-> 0,
     quantity |-> 0,
     stop_loss |-> 0,
     targets |-> <<>>,
     entered |-> FALSE,
     exit_price |-> 0,
     remaining_quantity |-> 0,
     booked_quantity |-> 0,
     realized_pnl |-> 0,
     unrealized_pnl |-> 0,
     stage_history |-> <<"SIGNAL_GENERATED">>,
     highest_price |-> 0,
     lowest_price |-> Infinity,
     rejection_reason |-> ""]

update_stage(t, new_stage) ==
    [t EXCEPT !.stage = new_stage,
              !.stage_history = Append(@, new_stage)]

\* a faulty enter_trade that moves straight to MONITORING
enter_trade_SkipEntered(t, entry_price, quantity, stop_loss, targets) ==
    update_stage([t EXCEPT !.entry_price = entry_price,
                           !.quantity = quantity,
                           !.remaining_quantity = quantity,
                           !.stop_loss = stop_loss,
                           !.targets = targets,
                           !.entered = TRUE,
                           !.highest_price = entry_price,
                           !.lowest_price = entry_price],
                 "MONITORING")

\* t.entered stands for entry_time (None until enter_trade sets it)
enter_trade(t, entry_price, quantity, stop_loss, targets) ==
    LET t1 == [t EXCEPT !.entry_price = entry_price,
                        !.quantity = quantity,
                        !.remaining_quantity = quantity,
                        !.stop_loss = stop_loss,
                        !.targets = targets,
                        !.entered = TRUE,
                        !.highest_price = entry_price,
                        !.lowest_price = entry_price]
    IN  update_stage(update_stage(t1, "ENTERED"), "MONITORING")

\* P&L of quantity shares of trade t at a price
TradePnl(t, price, quantity) ==
    IF t.signal_type = "BUY"
    THEN (price - t.entry_price) * quantity
    ELSE (t.entry_price - price) * quantity

\* stage_map.get(target_level, PARTIAL_EXIT_1)
StageOfTarget(target_level) ==
    IF target_level = 2 THEN "PARTIAL_EXIT_2"
    ELSE IF target_level = 3 THEN "TRAILING"
    ELSE "PARTIAL_EXIT_1"

partial_exit(t, exit_price, quantity, target_level) ==
    LET t1 == [t EXCEPT !.booked_quantity = @ + quantity,
                        !.remaining_quantity = @ - quantity,
                        !.realized_pnl = @ + TradePnl(t, exit_price, quantity)]
    IN  update_stage(t1, StageOfTarget(target_level))

final_exit(t, exit_price) ==
    LET t1 == IF t.remaining_quantity > 0
              THEN [t EXCEPT !.realized_pnl =
                                 @ + TradePnl(t, exit_price, t.remaining_quantity),
                             !.booked_quantity = @ + t.remaining_quantity,
                             !.remaining_quantity = 0]
              ELSE t
    IN  update_stage([t1 EXCEPT !.exit_price = exit_price], "EXITED")

reject(t, reason) ==
    update_stage([t EXCEPT !.rejection_reason = reason], "REJECTED")

MonitoringStages == {"MONITORING", "PARTIAL_EXIT_1", "PARTIAL_EXIT_2", "TRAILING"}

update_current_price(t, current_price) ==
    IF t.stage \in MonitoringStages
    THEN [t EXCEPT !.highest_price = Max2(@, current_price),
                   !.lowest_price = Min2(@, current_price),
                   !.unrealized_pnl =
                       IF t.remaining_quantity > 0
                       THEN TradePnl(t, current_price, t.remaining_quantity)
                       ELSE @]
    ELSE t

LifecycleInit ==
    /\ active_trades = EmptyDict
    /\ completed_trades = <<>>
    /\ next_trade_id = 1

\* TradeLifecycleManager.create_trade: the trade id "T%05d" is modelled by
\* its number
CreateTrade(symbol, signal_type) ==
    Trade(next_trade_id, symbol, signal_type)

\* ------------------------------------------------------------------------
\* HybridStopLoss, TargetCalculator, QuantityCalculator
\* ------------------------------------------------------------------------

\* a faulty calculate_hybrid_stop that returns the chosen candidate without
\* enforcing the minimum and maximum stop distances
calculate_hybrid_stop_Unclamped(d, entry_price, signal_type) ==
    LET buy == signal_type = "BUY"
        atr_stop == IF buy THEN entry_price - (d.atr * 3) \div 2
                    ELSE entry_price + (d.atr * 3) \div 2
        swing_stop == IF buy THEN (d.swing_low * 998) \div 1000
                      ELSE (d.swing_high * 1002) \div 1000
        vwap_stop == IF buy THEN (d.vwap * 995) \div 1000
                     ELSE (d.vwap * 1005) \div 1000
        final_stop == IF buy THEN Max2(atr_stop, Max2(swing_stop, vwap_stop))
                      ELSE Min2(atr_stop, Min2(swing_stop, vwap_stop))
    IN  [stop_loss |-> final_stop,
         method |-> IF atr_stop = final_stop THEN "ATR"
                    ELSE IF swing_stop = final_stop THEN "SWING" ELSE "VWAP",
         stop_distance |-> Abs(entry_price - final_stop),
         stop_distance_pct |-> <<Abs(entry_price - final_stop) * 100, entry_price>>,
         atr_stop |-> atr_stop, swing_stop |-> swing_stop, vwap_stop |-> vwap_stop,
         atr_value |-> d.atr]

\* calculate_hybrid_stop(df, entry_price, signal_type, atr_multiplier=1.5):
\* d.candles is len(df), d.atr and d.vwap the latest row's atr and vwap,
\* d.swing_low and d.swing_high the lowest low and the highest high of the
\* last 20 rows.  Prices are whole numbers (the inputs are chosen so that the
\* products below are whole); stop_distance_pct is a fraction
\* <<numerator, denominator>>
calculate_hybrid_stop(d, entry_price, signal_type) ==
    LET buy == signal_type = "BUY"
        atr_stop == IF buy THEN entry_price - (d.atr * 3) \div 2
                    ELSE entry_price + (d.atr * 3) \div 2
        swing_stop == IF buy THEN (d.swing_low * 998) \div 1000
                      ELSE (d.swing_high * 1002) \div 1000
        vwap_stop == IF buy THEN (d.vwap * 995) \div 1000
                     ELSE (d.vwap * 1005) \div 1000
        final_stop == IF buy THEN Max2(atr_stop, Max2(swing_stop, vwap_stop))
                      ELSE Min2(atr_stop, Min2(swing_stop, vwap_stop))
        method == IF atr_stop = final_stop THEN "ATR"
                  ELSE IF swing_stop = final_stop THEN "SWING" ELSE "VWAP"
        stop_distance == Abs(entry_price - final_stop)
        \* the stop and the stop_distance_pct left by the distance limits
        adjusted ==
            \* stop_distance_pct < 0.5
            IF stop_distance * 200 < entry_price
            THEN [stop_loss |-> IF buy THEN (entry_price * 995) \div 1000
                                ELSE (entry_price * 1005) \div 1000,
                  method |-> method \o "_ADJUSTED_MIN",
                  stop_distance_pct |-> <<1, 2>>]
            \* stop_distance_pct > 5.0
            ELSE IF stop_distance * 20 > entry_price
            THEN [stop_loss |-> IF buy THEN (entry_price * 95) \div 100
                                ELSE (entry_price * 105) \div 100,
                  method |-> method \o "_ADJUSTED_MAX",
                  stop_distance_pct |-> <<5, 1>>]
            ELSE [stop_loss |-> final_stop, method |-> method,
                  stop_distance_pct |-> <<stop_distance * 100, entry_price>>]
    IN  IF d.candles < 20
        THEN LET fallback_stop == IF buy THEN (entry_price * 98) \div 100
                                  ELSE (entry_price * 102) \div 100
             IN  [stop_loss |-> fallback_stop,
                  method |-> "FALLBACK",
                  stop_distance |-> Abs(entry_price - fallback_stop),
                  stop_distance_pct |-> <<2, 1>>]
        ELSE [stop_loss |-> adjusted.stop_loss,
              method |-> adjusted.method,
              stop_distance |-> Abs(entry_price - adjusted.stop_loss),
              stop_distance_pct |-> adjusted.stop_distance_pct,
              atr_stop |-> atr_stop, swing_stop |-> swing_stop,
              vwap_stop |-> vwap_stop, atr_value |-> d.atr]

\* the structure levels calculate_targets keeps for Target 1
NearbyLevels(structure_targets, entry_price, target_2r, signal_type) ==
    SelectSeq(structure_targets,
              LAMBDA l : IF signal_type = "BUY"
                         THEN l > entry_price /\ l <= target_2r
                         ELSE l < entry_price /\ l >= target_2r)

\* a faulty calculate_targets whose Target 2 is the 3R level
calculate_targets_T2At3R(entry_price, stop_loss, signal_type, structure_targets) ==
    LET risk == Abs(entry_price - stop_loss)
        buy == signal_type = "BUY"
        target_1r == IF buy THEN entry_price + risk ELSE entry_price - risk
        target_3r == IF buy THEN entry_price + risk * 3 ELSE entry_price - risk * 3
    IN  [risk |-> risk,
         targets |-> << [price |-> target_1r, rr_ratio |-> <<1, 1>>,
                         book_percentage |-> 50],
                        [price |-> target_3r, rr_ratio |-> <<min_rr_x10, 10>>,
                         book_percentage |-> 30],
                        [price |-> target_3r, rr_ratio |-> <<3, 1>>,
                         book_percentage |-> 20] >>]

\* calculate_targets(entry_price, stop_loss, signal_type, df, min_rr):
\* structure_targets is what _get_structure_targets(df, ...) returns
calculate_targets(entry_price, stop_loss, signal_type, structure_targets) ==
    LET risk == Abs(entry_price - stop_loss)
        buy == signal_type = "BUY"
        target_1r == IF buy THEN entry_price + risk ELSE entry_price - risk
        target_2r == IF buy THEN entry_price + (risk * min_rr_x10) \div 10
                     ELSE entry_price - (risk * min_rr_x10) \div 10
        target_3r == IF buy THEN entry_price + risk * 3 ELSE entry_price - risk * 3
        nearby == NearbyLevels(structure_targets, entry_price, target_2r, signal_type)
        t1 == IF nearby = <<>> THEN target_1r
              ELSE IF buy THEN nearby[1] ELSE nearby[Len(nearby)]
    IN  [risk |-> risk,
         \* rr_ratio is a fraction <<numerator, denominator>>
         targets |-> << [price |-> t1, rr_ratio |-> <<Abs(t1 - entry_price), risk>>,
                         book_percentage |-> 50],
                        [price |-> target_2r, rr_ratio |-> <<min_rr_x10, 10>>,
                         book_percentage |-> 30],
                        [price |-> target_3r, rr_ratio |-> <<3, 1>>,
                         book_percentage |-> 20] >>]

\* a faulty calculate_quantity without the limit on the position value
calculate_quantity_Uncapped(capital, entry_price, stop_loss, confidence) ==
    LET confidence_multiplier == Min2(100, Max2(50, confidence))
        risk_per_share == Abs(entry_price - stop_loss)
        adjusted_risk_amount ==
            (capital * risk_per_trade_pct_x10 * confidence_multiplier) \div 100
        quantity == adjusted_risk_amount \div (1000 * risk_per_share)
    IN  IF risk_per_share = 0 \/ quantity <= 0
        THEN [quantity |-> 0, valid |-> FALSE, capital_required |-> 0,
              risk_amount |-> 0, reason |-> "Invalid"]
        ELSE [quantity |-> quantity, valid |-> TRUE,
              capital_required |-> quantity * entry_price,
              risk_amount |-> adjusted_risk_amount,
              risk_pct |-> <<adjusted_risk_amount, 10 * capital>>,
              reason |-> "Quantity calculated based on risk"]

\* calculate_quantity(total_capital, entry_price, stop_loss,
\*                    risk_per_trade_pct, confidence, max_position_value_pct=10.0).
\* risk_amount is in thousandths of the currency unit, risk_pct a fraction
\* <<numerator, denominator>>
calculate_quantity(capital, entry_price, stop_loss, confidence) ==
    LET \* min(1.0, max(0.5, confidence / 100)), in percent
        confidence_multiplier == Min2(100, Max2(50, confidence))
        \* total_capital * (risk_per_trade_pct / 100) * confidence_multiplier
        adjusted_risk_amount ==
            (capital * risk_per_trade_pct_x10 * confidence_multiplier) \div 100
        risk_per_share == Abs(entry_price - stop_loss)
        \* int(adjusted_risk_amount / risk_per_share)
        q0 == (capital * risk_per_trade_pct_x10 * confidence_multiplier)
                  \div (100000 * risk_per_share)
        \* capital_required > total_capital * (10 / 100)
        capped == q0 * entry_price * 10 > capital
        \* int(max_position_value / entry_price)
        quantity == IF capped THEN capital \div (10 * entry_price) ELSE q0
        capital_required == quantity * entry_price
        actual_risk == IF capped THEN quantity * risk_per_share * 1000
                       ELSE adjusted_risk_amount
        \* (actual_risk / total_capital) * 100
        actual_risk_pct == <<actual_risk, 10 * capital>>
        \* actual_risk_pct > risk_per_trade_pct * 1.2
        too_risky == actual_risk_pct[1] * 100
                         > risk_per_trade_pct_x10 * 12 * actual_risk_pct[2]
    IN  IF risk_per_share = 0
        THEN [quantity |-> 0, valid |-> FALSE, capital_required |-> 0,
              risk_amount |-> 0,
              reason |-> "Invalid stop-loss: zero risk per share"]
        ELSE IF quantity <= 0
        THEN [quantity |-> 0, valid |-> FALSE,
              capital_required |-> capital_required,
              risk_amount |-> 0,
              reason |-> "Insufficient capital for minimum position"]
        ELSE IF too_risky
        THEN [quantity |-> 0, valid |-> FALSE,
              capital_required |-> capital_required,
              risk_amount |-> actual_risk,
              reason |-> "Risk exceeds limit"]
        ELSE [quantity |-> quantity, valid |-> TRUE,
              capital_required |-> capital_required,
              risk_amount |-> actual_risk,
              risk_pct |-> actual_risk_pct,
              reason |-> IF capped THEN "Position capped"
                         ELSE "Quantity calculated based on risk"]

\* _get_structure_targets(df, entry_price, signal_type): the swing highs above
\* entry (ascending) for BUY, the swing lows below entry (descending) for SELL
get_structure_targets(d, signal_type) ==
    IF d.candles < 20 THEN <<>>
    ELSE IF signal_type = "BUY" THEN d.swing_highs ELSE d.swing_lows

\* ------------------------------------------------------------------------
\* RuleDrivenExecutionEngine
\* ------------------------------------------------------------------------

\* _hold_decision, together with the state the evaluation leaves
Hold(reason, sig, rm, daily) ==
    [ACTION |-> "HOLD", reason |-> reason, signal |-> sig.signal,
     lst |-> sig.lst, rm |-> rm, daily |-> daily]

\* an exception that leaves evaluate_trade_opportunity
Raise(exc, sig) ==
    [ACTION |-> "RAISE", reason |-> exc, signal |-> sig.signal,
     lst |-> sig.lst, rm |-> RM, daily |-> "none"]

\* EntryLogic._check_momentum_continuation(df, trend_analysis, current_price)
\* on a series of at least 20 rows: past the strength check it reads
\* trend_analysis['trend'], which raises KeyError if the key is missing
MomentumCheckRaises(trend_analysis) ==
    /\ DictGet(trend_analysis, "strength", 0) >= 70
    /\ "trend" \notin DOMAIN trend_analysis

\* evaluate_trade_opportunity(symbol, higher_tf, lower_tf) on market data d:
\* the decision, and the cooldown map and RiskManager state it leaves.
\* d.aligned is the alignment verdict of MultiTimeframeAnalyzer, d.entry the
\* entry setup of EntryLogic.identify_entry_type; the rest of d describes the
\* lower-timeframe series (see GenerateSignal, calculate_hybrid_stop)
Evaluate(symbol, lower_tf, d) ==
    LET sig == GenerateSignal(last_signal_time, symbol, lower_tf, d)
        nosig == [signal |-> FALSE, lst |-> last_signal_time]
        entry_price == d.entry.entry_price
        stop_calc == calculate_hybrid_stop(d, entry_price, sig.signal_type)
        stop_loss == stop_calc.stop_loss
        target_calc == calculate_targets(entry_price, stop_loss, sig.signal_type,
                           get_structure_targets(d, sig.signal_type))
        targets == target_calc.targets
        qty_calc == calculate_quantity(total_capital, entry_price, stop_loss,
                                       sig.confidence)
        validation == ValidateTrade(RM, symbol, entry_price, stop_loss,
                                    sig.confidence)
    IN  IF ~d.aligned THEN Hold("Multi-timeframe misalignment", nosig, RM, "none")
        ELSE IF ~sig.signal THEN Hold("No valid signal generated", sig, RM, "none")
        ELSE IF sig.confidence < min_confidence
        THEN Hold("Confidence below threshold", sig, RM, "none")
        ELSE IF sig.regime = "UNKNOWN"
        THEN Hold("Market regime unknown", sig, RM, "none")
        \* volatility_analysis.get('atr_percentile', 50) > 95
        ELSE IF DictGet(sig.volatility, "atr_percentile", 50) > 95
        THEN Hold("Abnormal volatility", sig, RM, "none")
        \* identify_entry_type(ltf_data, signal['indicators']['trend'], {}, ...)
        \* runs the momentum check whatever the other checks found
        ELSE IF MomentumCheckRaises(sig.trend)
        THEN Raise("KeyError", sig)
        ELSE IF ~d.entry.valid
        THEN Hold("No valid entry setup", sig, RM, "none")
        \* targets[0]['rr_ratio'] < self.min_rr
        ELSE IF targets[1].rr_ratio[1] * 10 < min_rr_x10 * targets[1].rr_ratio[2]
        THEN Hold("Risk-reward below minimum", sig, RM, "none")
        ELSE IF ~qty_calc.valid
        THEN Hold("Position sizing failed", sig, RM, "none")
        ELSE IF ~validation.allowed
        THEN Hold("Risk check failed: " \o validation.reason, sig, validation.rm,
                  IF validation.reason = "Daily loss limit breached - trading halted"
                  THEN "False" ELSE "True")
        ELSE [ACTION |-> "EXECUTE_TRADE", signal |-> TRUE, lst |-> sig.lst,
              rm |-> validation.rm, daily |-> "True",
              order |-> [ACTION |-> "EXECUTE_TRADE",
                         trade_id |-> next_trade_id,
                         symbol |-> symbol,
                         direction |-> sig.signal_type,
                         entry_price |-> entry_price,
                         entry_type |-> d.entry.entry_type,
                         quantity |-> qty_calc.quantity,
                         stop_loss |-> stop_loss,
                         stop_method |-> stop_calc.method,
                         targets |-> targets,
                         capital_required |-> qty_calc.capital_required]]

evaluate_trade_opportunity(symbol, lower_tf, d) ==
    LET e == Evaluate(symbol, lower_tf, d)
    IN  /\ last_signal_time' = e.lst
        /\ SetRM(e.rm)
        /\ halted_days' = IF e.daily = "False"
                          THEN halted_days \cup {Date(now)} ELSE halted_days
        /\ IF e.ACTION = "EXECUTE_TRADE"
           THEN \* Step 10: create_trade, then update_stage(VALIDATED)
                /\ next_trade_id <= MaxTrades
                /\ active_trades' = DictPut(active_trades, next_trade_id,
                        update_stage(CreateTrade(symbol, e.order.direction),
                                     "VALIDATED"))
                /\ next_trade_id' = next_trade_id + 1
                /\ trade_calls' = DictPut(trade_calls, next_trade_id, <<>>)
                /\ orders' = orders \cup {e.order}
                /\ last_call' = Call("evaluate_trade_opportunity", symbol, "EXECUTE_TRADE")
           ELSE /\ UNCHANGED <<active_trades, next_trade_id, trade_calls, orders, in_flight>>
                /\ last_call' = Call("evaluate_trade_opportunity", symbol, e.reason)
        /\ UNCHANGED <<portfolio_vars, completed_trades, now, in_flight, emitted,
                       accepted_today>>

\* execute_trade on a HOLD decision
execute_hold(symbol) ==
    /\ last_call' = Call("execute_trade", symbol, "False")
    /\ UNCHANGED <<portfolio_vars, risk_vars, last_signal_time, lifecycle_vars,
                   now, orders, in_flight, observer_vars>>

\* execute_trade on an EXECUTE_TRADE order; db_ok is whether the persistence
\* insert of add_position succeeds, max_history the longest stage_history the
\* model follows
execute_trade_in(max_history, order, db_ok) ==
    LET symbol == order.symbol
        trade_id == order.trade_id
    IN  IF trade_id \notin DOMAIN active_trades
        THEN \* [t for t in active_trades.values() if ...][0] raises IndexError
             /\ last_call' = Call("execute_trade", symbol, "IndexError")
             /\ UNCHANGED <<portfolio_vars, risk_vars, last_signal_time,
                            lifecycle_vars, now, orders, in_flight, observer_vars>>
        ELSE LET trade == enter_trade(active_trades[trade_id], order.entry_price,
                                      order.quantity, order.stop_loss, order.targets)
                 position_type == IF trade.signal_type = "BUY" THEN "LONG" ELSE "SHORT"
                 target == IF order.targets # <<>> THEN order.targets[1].price ELSE NoTarget
             IN  IF AddPositionOk(symbol, order.quantity, order.entry_price, db_ok)
                 THEN /\ Len(trade.stage_history) <= max_history
                      /\ db_trades < MaxDbTrades
                      /\ AddPositionEffect(symbol, position_type, order.quantity,
                                           order.entry_price, order.stop_loss, target)
                      /\ SetRM(RecordTrade(RM, symbol))
                      /\ active_trades' = [active_trades EXCEPT ![trade_id] = trade]
                      /\ trade_calls' = [trade_calls EXCEPT ![trade_id] =
                                             Append(@, "enter_trade")]
                      /\ accepted_today' = [accepted_today EXCEPT ![symbol] = @ + 1]
                      /\ last_call' = Call("execute_trade", symbol, "True")
                      /\ UNCHANGED <<last_signal_time, completed_trades,
                                     next_trade_id, now, orders, in_flight, emitted, halted_days>>
                 ELSE /\ Len(trade.stage_history) < max_history
                      /\ active_trades' = [active_trades EXCEPT ![trade_id] =
                                reject(trade, "Portfolio execution failed")]
                      /\ trade_calls' = [trade_calls EXCEPT ![trade_id] =
                                             Append(Append(@, "enter_trade"), "reject")]
                      /\ last_call' = Call("execute_trade", symbol, "False")
                      /\ UNCHANGED <<portfolio_vars, risk_vars, last_signal_time,
                                     completed_trades, next_trade_id, now, orders, in_flight,
                                     emitted, halted_days, accepted_today>>

\* execute_trade with the stage histories kept within MaxEngineHistory
execute_trade(order, db_ok) == execute_trade_in(MaxEngineHistory, order, db_ok)

\* ------------------------------------------------------------------------
\* Direct calls of SignalGenerator.generate_signal
\* ------------------------------------------------------------------------

generate_signal(symbol, timeframe, a) ==
    LET sig == GenerateSignal(last_signal_time, symbol, timeframe, a)
    IN  /\ last_signal_time' = sig.lst
        /\ NoteEmitted(symbol, timeframe, sig.signal)
        /\ last_call' = [op |-> "generate_signal", sym |-> symbol, tf |-> timeframe,
                         ret |-> IF sig.signal THEN "Signal"
                                 ELSE IF a.candles >= 200
                                         /\ CooldownActive(last_signal_time,
                                                CooldownKey(symbol, timeframe))
                                 THEN "None (cooldown)" ELSE "None"]
        /\ UNCHANGED <<portfolio_vars, risk_vars, lifecycle_vars, now, orders, in_flight,
                       trade_calls, halted_days, accepted_today>>

\* ------------------------------------------------------------------------
\* Direct calls of the methods of a Trade
\* ------------------------------------------------------------------------

\* the methods are called on the Trade the manager holds under trade_id
OnTrade(trade_id, t, op, grows) ==
    /\ trade_id \in DOMAIN active_trades
    /\ Len(active_trades[trade_id].stage_history) + grows <= MaxHistory
    /\ active_trades' = [active_trades EXCEPT ![trade_id] = t]
    /\ trade_calls' = [trade_calls EXCEPT ![trade_id] = Append(@, op)]
    /\ last_call' = Call(op, active_trades[trade_id].symbol, "None")
    /\ UNCHANGED <<portfolio_vars, risk_vars, last_signal_time, completed_trades,
                   next_trade_id, now, orders, in_flight, emitted, halted_days, accepted_today>>

call_enter_trade(trade_id, entry_price, quantity, stop_loss) ==
    /\ trade_id \in DOMAIN active_trades
    /\ OnTrade(trade_id,
               enter_trade(active_trades[trade_id], entry_price, quantity,
                           stop_loss, <<>>),
               "enter_trade", 2)

call_partial_exit(trade_id, exit_price, quantity, target_level) ==
    /\ trade_id \in DOMAIN active_trades
    /\ OnTrade(trade_id,
               partial_exit(active_trades[trade_id], exit_price, quantity,
                            target_level),
               IF target_level = 1 THEN "partial_exit_1"
               ELSE IF target_level = 2 THEN "partial_exit_2" ELSE "partial_exit_3",
               1)

call_final_exit(trade_id, exit_price) ==
    /\ trade_id \in DOMAIN active_trades
    /\ OnTrade(trade_id, final_exit(active_trades[trade_id], exit_price),
               "final_exit", 1)

call_reject(trade_id) ==
    /\ trade_id \in DOMAIN active_trades
    /\ OnTrade(trade_id, reject(active_trades[trade_id], "rejected"), "reject", 1)

call_update_current_price(trade_id, current_price) ==
    /\ trade_id \in DOMAIN active_trades
    /\ active_trades' = [active_trades EXCEPT ![trade_id] =
                             update_current_price(@, current_price)]
    /\ last_call' = Call("update_current_price", active_trades[trade_id].symbol, "None")
    /\ UNCHANGED <<portfolio_vars, risk_vars, last_signal_time, completed_trades,
                   next_trade_id, now, orders, in_flight, observer_vars>>

\* ------------------------------------------------------------------------
\* Specifications
\* ------------------------------------------------------------------------

Init ==
    /\ PortfolioInit
    /\ RiskInit
    /\ LifecycleInit
    /\ last_signal_time = EmptyDict
    /\ now = 0
    /\ orders = {}
    /\ in_flight = {}
    /\ last_call = Call("__init__", "", "None")
    /\ trade_calls = EmptyDict
    /\ emitted = [p \in Symbols \X TimeFrames |-> {}]
    /\ halted_days = {}
    /\ accepted_today = ZeroCounts

\* market data that passes every gate of the evaluation for a direction.
\* entry is the setup EntryLogic.identify_entry_type returns; it is an input
\* here.  (As evaluate_trade_opportunity calls it, with the signal's trend
\* summary and an empty structure, the pullback and breakout checks never
\* find a setup and the momentum check finds none or raises KeyError, so a
\* valid entry stands for an EntryLogic given the dictionaries it reads.
\* The orders an evaluation returns can also be built from validate_trade,
\* create_trade and update_stage, which execute_trade accepts alike.)
Favourable(signal_type) ==
    [aligned |-> TRUE,
     candles |-> 250,
     signal_type |-> signal_type,
     confidence |-> 75,
     risk_reward_x10 |-> 30,
     regime |-> "TREND",
     trend |-> "BULLISH",
     strength |-> 50,
     atr |-> 20,
     volatility_regime |-> "NORMAL",
     atr_percentile |-> 50,
     breakout |-> FALSE,
     swing_low |-> 500,
     swing_high |-> 1500,
     vwap |-> IF signal_type = "SELL" THEN 1200 ELSE 800,
     swing_highs |-> <<1060>>,
     swing_lows |-> <<940>>,
     entry |-> [valid |-> TRUE, entry_price |-> 1000, entry_type |-> "PULLBACK"]]

\* the market data an evaluation may see: favourable data, and favourable
\* data spoilt in one respect
MarketData ==
    LET buy == Favourable("BUY")
    IN  {buy,
         [buy EXCEPT !.aligned = FALSE],
         [buy EXCEPT !.candles = 100],
         [buy EXCEPT !.confidence = 65],
         [buy EXCEPT !.entry = [valid |-> FALSE, entry_price |-> 1000,
                                entry_type |-> "None"]],
         [buy EXCEPT !.swing_highs = <<>>]}

\* the engine, its portfolio and its risk manager, driven through the calls
\* exposed to the GUI/CLI boundary
Next ==
    \/ \E symbol \in Symbols, d \in MarketData :
           evaluate_trade_opportunity(symbol, "5m", d)
    \/ \E order \in orders, db_ok \in BOOLEAN : execute_trade(order, db_ok)
    \/ \E symbol \in Symbols : execute_hold(symbol)
    \/ \E symbol \in Symbols, price \in EnginePrices : close_position(symbol, price)
    \/ calculate_totals
    \/ new_day

Spec == Init /\ [][Next]_vars

\* stop-loss and target as TradingEngineGUI._do_execute derives them from the
\* last traded price
GuiStop(position_type, ltp) ==
    IF position_type = "LONG" THEN RoundDiv(ltp * 98, 100) ELSE RoundDiv(ltp * 102, 100)

GuiTarget(position_type, ltp) ==
    IF position_type = "LONG" THEN RoundDiv(ltp * 104, 100) ELSE RoundDiv(ltp * 96, 100)

\* PortfolioState driven directly (as the GUI drives it)
NextPortfolio ==
    \/ \E symbol \in Symbols, position_type \in PositionTypes,
          quantity \in Quantities, ltp \in EntryPrices, db_ok \in BOOLEAN :
           add_position(symbol, position_type, quantity, ltp,
                        GuiStop(position_type, ltp), GuiTarget(position_type, ltp),
                        db_ok)
    \/ \E symbol \in Symbols, price \in Prices : close_position(symbol, price)
    \/ \E symbol \in Symbols, price \in Prices : update_position_price(symbol, price)
    \/ calculate_totals

SpecPortfolio == Init /\ [][NextPortfolio]_vars

\* the RiskManager over a portfolio whose positions are opened, marked to
\* market and closed while the risk checks are called
NextRisk ==
    \/ \E symbol \in Symbols :
           add_position(symbol, "LONG", 10, 1000, GuiStop("LONG", 1000),
                        GuiTarget("LONG", 1000), TRUE)
    \/ \E symbol \in Symbols, price \in EnginePrices :
           update_position_price(symbol, price)
    \/ \E symbol \in Symbols, price \in EnginePrices : close_position(symbol, price)
    \/ calculate_totals
    \/ check_daily_loss_limit
    \/ \E symbol \in Symbols : validate_trade(symbol, 1000, 970, 75)
    \/ new_day

SpecRisk == Init /\ [][NextRisk]_vars

\* the analyses generate_signal may compute from a series
Analyses ==
    [candles : {100, 250},
     signal_type : SignalTypes,
     confidence : {65, 75},
     risk_reward_x10 : {0, 30},
     regime : {"TREND"},
     trend : {"BULLISH"},
     strength : {50},
     atr : {20},
     volatility_regime : {"NORMAL"}]

NextSignal ==
    \/ \E symbol \in Symbols, timeframe \in TimeFrames, a \in Analyses :
           generate_signal(symbol, timeframe, a)
    \/ tick

SpecSignal == Init /\ [][NextSignal]_vars

\* a newly created Trade, its methods called in any order
InitTrade ==
    /\ PortfolioInit
    /\ RiskInit
    /\ \E signal_type \in {"BUY", "SELL"} :
           active_trades = DictPut(EmptyDict, 1, Trade(1, "A", signal_type))
    /\ completed_trades = <<>>
    /\ next_trade_id = 2
    /\ last_signal_time = EmptyDict
    /\ now = 0
    /\ orders = {}
    /\ in_flight = {}
    /\ last_call = Call("create_trade", "A", "Trade")
    /\ trade_calls = DictPut(EmptyDict, 1, <<>>)
    /\ emitted = [p \in Symbols \X TimeFrames |-> {}]
    /\ halted_days = {}
    /\ accepted_today = ZeroCounts

NextTrade ==
    \/ \E trade_id \in DOMAIN active_trades :
           call_enter_trade(trade_id, 1000, 10, 980)
    \/ \E trade_id \in DOMAIN active_trades, target_level \in {1, 2, 3} :
           call_partial_exit(trade_id, 1040, 5, target_level)
    \/ \E trade_id \in DOMAIN active_trades : call_final_exit(trade_id, 1040)
    \/ \E trade_id \in DOMAIN active_trades : call_reject(trade_id)
    \/ \E trade_id \in DOMAIN active_trades, price \in {990, 1040} :
           call_update_current_price(trade_id, price)

SpecTrade == InitTrade /\ [][NextTrade]_vars

\* ------------------------------------------------------------------------
\* Portfolio ledger (C1, C2)
\* ------------------------------------------------------------------------

\* C1: after every add_position, close_position and update_position_price
\* call, with no calculate_totals call needed,
\* available_capital + invested_capital + unrealized_pnl = total_capital.
\* close_position credits the realised profit or loss to available_capital
\* and leaves total_capital as it was, so the identity breaks at the first
\* close whose exit price differs from the entry price.
C1_LedgerIdentity ==
    last_call.op \in {"add_position", "close_position", "update_position_price"}
        => available_capital + invested_capital + unrealized_pnl = total_capital

\* C2: available_capital >= 0 in every state reachable by add_position,
\* close_position and update_position_price, for LONG and SHORT positions
\* and any positive exit price.  A SHORT closed above twice its entry price
\* loses more than its investment, and close_position adds the (negative)
\* investment + pnl to available_capital.
C2_AvailableNonNegative ==
    available_capital >= 0

\* ------------------------------------------------------------------------
\* execute_trade and the lifecycle (C3, C7, C10)
\* ------------------------------------------------------------------------

InHistory(t, stage) ==
    \E i \in 1..Len(t.stage_history) : t.stage_history[i] = stage

\* C3: when add_position fails, execute_trade returns false and leaves no
\* partial state: the Trade ends REJECTED carrying no recorded entry (it
\* never passed through ENTERED or MONITORING, and its quantity and
\* remaining_quantity are not those of the fill); and it returns true only
\* when the Position was added.  execute_trade calls Trade.enter_trade
\* before add_position, so the rejected Trade has been entered.
C3_NoPartialState ==
    /\ \A id \in DOMAIN active_trades :
           LET t == active_trades[id]
           IN  t.stage = "REJECTED"
                   => /\ ~InHistory(t, "ENTERED")
                      /\ ~InHistory(t, "MONITORING")
                      /\ ~t.entered
                      /\ t.quantity = 0
                      /\ t.remaining_quantity = 0
    /\ (last_call.op = "execute_trade" /\ last_call.ret = "True")
           => last_call.sym \in DOMAIN positions

PreEntryStages == {"SIGNAL_GENERATED", "VALIDATED", "ENTRY_PENDING"}

\* C7: a Trade enters REJECTED only from a pre-entry stage, under any
\* sequence of Trade and engine operations.  The failure path of
\* execute_trade rejects a Trade that enter_trade has moved to MONITORING.
C7_RejectedOnlyFromPreEntry ==
    \A id \in DOMAIN active_trades :
        LET h == active_trades[id].stage_history
        IN  \A i \in 1..(Len(h) - 1) :
                h[i + 1] = "REJECTED" => h[i] \in PreEntryStages

C4_HaltIsSticky ==
    /\ (last_call.op = "check_daily_loss_limit" /\ last_call.ret = "True")
           => Date(now) \notin halted_days
    /\ (last_call.op = "validate_trade" /\ last_call.ret = "allowed")
           => Date(now) \notin halted_days

\* ------------------------------------------------------------------------
\* Signal cooldown (C5)
\* ------------------------------------------------------------------------

\* C5: for every (symbol, timeframe), any two signals generate_signal has
\* emitted are at least cooldown_minutes apart (a call made sooner returns
\* None), and a call is turned away by the cooldown only when a signal of
\* its own (symbol, timeframe) was emitted less than cooldown_minutes ago:
\* other keys do not affect it.
C5_CooldownPerKey ==
    /\ \A p \in DOMAIN emitted :
           \A t1 \in emitted[p], t2 \in emitted[p] :
               t1 # t2 => Abs(t1 - t2) >= cooldown_minutes
    /\ (last_call.op = "generate_signal" /\ last_call.ret = "None (cooldown)")
           => \E t \in emitted[<<last_call.sym, last_call.tf>>] :
                  now - t < cooldown_minutes

\* a key has emitted again after its window elapsed, another key has
\* emitted inside that window, and the last call was turned away by the
\* cooldown
C5_Witness ==
    /\ \E p \in DOMAIN emitted, q \in DOMAIN emitted :
           /\ p # q
           /\ Cardinality(emitted[p]) >= 2
           /\ \E t \in emitted[q] : \E u \in emitted[p] :
                  u < t /\ t - u < cooldown_minutes
    /\ last_call.op = "generate_signal"
    /\ last_call.ret = "None (cooldown)"

\* ------------------------------------------------------------------------
\* Trade lifecycle (C6, C8)
\* ------------------------------------------------------------------------

ExpectedStages ==
    <<"SIGNAL_GENERATED", "ENTERED", "MONITORING", "PARTIAL_EXIT_1", "EXITED">>

\* C6: on a newly created Trade the calls enter_trade,
\* partial_exit(target_level=1), final_exit make the stage visit
\* SIGNAL_GENERATED, ENTERED, MONITORING, PARTIAL_EXIT_1, EXITED in that
\* order; stage_history gains at least one entry per call and
\* SIGNAL_GENERATED is only its first entry.
C6_LifecycleOrder ==
    \A id \in DOMAIN trade_calls \cap DOMAIN active_trades :
        LET t == active_trades[id]
            h == t.stage_history
            calls == trade_calls[id]
        IN  /\ h[1] = "SIGNAL_GENERATED"
            /\ \A i \in 2..Len(h) : h[i] # "SIGNAL_GENERATED"
            /\ Len(h) >= 1 + Len(calls)
            /\ t.stage = h[Len(h)]
            /\ calls = <<>> => h = SubSeq(ExpectedStages, 1, 1)
            /\ calls = <<"enter_trade">> => h = SubSeq(ExpectedStages, 1, 3)
            /\ calls = <<"enter_trade", "partial_exit_1">>
                   => h = SubSeq(ExpectedStages, 1, 4)
            /\ calls = <<"enter_trade", "partial_exit_1", "final_exit">>
                   => h = ExpectedStages

C6_Witness ==
    \E id \in DOMAIN trade_calls \cap DOMAIN active_trades :
        /\ trade_calls[id] = <<"enter_trade", "partial_exit_1", "final_exit">>
        /\ active_trades[id].stage = "EXITED"

\* position of a stage in the order of the lifecycle
StageRank(stage) ==
    CASE stage = "SIGNAL_GENERATED" -> 1
      [] stage = "VALIDATED" -> 2
      [] stage = "ENTRY_PENDING" -> 3
      [] stage = "ENTERED" -> 4
      [] stage = "MONITORING" -> 5
      [] stage \in {"PARTIAL_EXIT_1", "PARTIAL_EXIT_2", "TRAILING"} -> 6
      [] stage = "EXITED" -> 7
      [] stage = "REJECTED" -> 8

\* C8: under any sequence of enter_trade, partial_exit, final_exit, reject
\* and update_current_price calls the stage never moves backwards in the
\* lifecycle order, and no operation changes the stage of a Trade that is
\* EXITED or REJECTED.  The methods set the stage whatever the current
\* stage is.
C8_OneDirectional ==
    \A id \in DOMAIN active_trades :
        LET h == active_trades[id].stage_history
        IN  \A i \in 1..(Len(h) - 1) :
                /\ h[i] \notin {"EXITED", "REJECTED"}
                /\ StageRank(h[i]) <= StageRank(h[i + 1])

\* ------------------------------------------------------------------------
\* Per-symbol daily counter (C9)
\* ------------------------------------------------------------------------

\* C9: within a calendar day today_trades[symbol] equals the number of
\* execute_trade calls for the symbol that returned true; calls that
\* returned false leave it as it was.  (today_trades is of the day
\* last_reset_date; it rolls over at the first risk call of a new day.)
C9_CounterMatchesAccepted ==
    last_reset_date = Date(now)
        => \A symbol \in Symbols :
               DictGet(today_trades, symbol, 0) = accepted_today[symbol]

\* two accepted executions of a symbol have been counted on one day and a
\* later execute_trade returned false
C9_Witness ==
    /\ last_call.op = "execute_trade"
    /\ last_call.ret = "False"
    /\ last_reset_date = Date(now)
    /\ \E symbol \in Symbols :
           accepted_today[symbol] = 2 /\ DictGet(today_trades, symbol, 0) = 2

\* ------------------------------------------------------------------------
\* Per-symbol daily maximum (C11)
\* ------------------------------------------------------------------------

C12_AddPositionFailure ==
    [][\A symbol \in Symbols, position_type \in PositionTypes,
          quantity \in Quantities, ltp \in EntryPrices, db_ok \in BOOLEAN :
           add_position(symbol, position_type, quantity, ltp,
                        GuiStop(position_type, ltp), GuiTarget(position_type, ltp),
                        db_ok)
               => IF \/ symbol \in DOMAIN positions
                     \/ quantity * ltp > available_capital
                     \/ ~db_ok
                  THEN /\ last_call'.ret = "False"
                       /\ UNCHANGED <<positions, available_capital,
                                      invested_capital>>
                  ELSE /\ last_call'.ret = "True"
                       /\ symbol \notin DOMAIN positions
                       /\ DOMAIN positions' = DOMAIN positions \cup {symbol}]_vars

\* add_position has just returned false for a symbol that has a Position,
\* while the other symbol has none and could not be afforded either
C12_Witness ==
    /\ last_call.op = "add_position"
    /\ last_call.ret = "False"
    /\ last_call.sym \in DOMAIN positions
    /\ Cardinality(DOMAIN positions) = 1
    /\ available_capital < 10 * 1000

\* ------------------------------------------------------------------------
\* TradeLifecycleManager driven directly (C13)
\* ------------------------------------------------------------------------

\* a direct call of TradeLifecycleManager.create_trade
create_trade(symbol, signal_type) ==
    /\ next_trade_id <= MaxTrades
    /\ active_trades' = DictPut(active_trades, next_trade_id,
                                CreateTrade(symbol, signal_type))
    /\ next_trade_id' = next_trade_id + 1
    /\ trade_calls' = DictPut(trade_calls, next_trade_id, <<>>)
    /\ last_call' = Call("create_trade", symbol, "Trade")
    /\ UNCHANGED <<portfolio_vars, risk_vars, last_signal_time, completed_trades,
                   now, orders, in_flight, emitted, halted_days, accepted_today>>

\* a faulty close_trade that pops the Trade and forgets it
close_trade_Drop(trade_id) ==
    /\ active_trades' = IF trade_id \in DOMAIN active_trades
                        THEN DictDel(active_trades, trade_id)
                        ELSE active_trades
    /\ last_call' = Call("close_trade", "", "None")
    /\ UNCHANGED <<portfolio_vars, risk_vars, last_signal_time, completed_trades,
                   next_trade_id, now, orders, in_flight, observer_vars>>

\* TradeLifecycleManager.close_trade
close_trade(trade_id) ==
    /\ IF trade_id \in DOMAIN active_trades
       THEN /\ active_trades' = DictDel(active_trades, trade_id)
            /\ completed_trades' = Append(completed_trades, active_trades[trade_id])
       ELSE UNCHANGED <<active_trades, completed_trades>>
    /\ last_call' = Call("close_trade", "", "None")
    /\ UNCHANGED <<portfolio_vars, risk_vars, last_signal_time, next_trade_id,
                   now, orders, in_flight, observer_vars>>

\* the manager: trades are created, rejected and closed; close_trade is also
\* called with ids that are not active (closed before, or never created)
NextManager ==
    \/ \E symbol \in Symbols, signal_type \in {"BUY", "SELL"} :
           create_trade(symbol, signal_type)
    \/ \E trade_id \in 1..(MaxTrades + 1) : close_trade(trade_id)
    \/ \E trade_id \in DOMAIN active_trades : call_reject(trade_id)

SpecManager == Init /\ [][NextManager]_vars

\* the number of entries of completed_trades that are the Trade trade_id
TimesCompleted(trade_id) ==
    Cardinality({i \in 1..Len(completed_trades) :
                     completed_trades[i].trade_id = trade_id})

\* C13: every Trade ever created is in exactly one of active_trades and
\* completed_trades (once); a Trade moves to completed_trades only through
\* close_trade, which appends the Trade it removes from active_trades; and
\* close_trade on an id that is not active changes nothing.
C13_RelocatedNotDeleted ==
    /\ [](\A trade_id \in 1..(next_trade_id - 1) :
              IF trade_id \in DOMAIN active_trades
              THEN TimesCompleted(trade_id) = 0
              ELSE TimesCompleted(trade_id) = 1)
    /\ [][/\ completed_trades' # completed_trades
              => /\ last_call'.op = "close_trade"
                 /\ \E trade_id \in DOMAIN active_trades :
                        /\ trade_id \notin DOMAIN active_trades'
                        /\ completed_trades' =
                               Append(completed_trades, active_trades[trade_id])
          /\ \A trade_id \in 1..(MaxTrades + 1) :
                 (close_trade(trade_id) /\ trade_id \notin DOMAIN active_trades)
                     => UNCHANGED lifecycle_vars]_vars

\* one Trade has been closed, another is still active, and close_trade has
\* just been called
C13_Witness ==
    /\ Len(completed_trades) = 1
    /\ Cardinality(DOMAIN active_trades) = 1
    /\ completed_trades[1].stage = "REJECTED"
    /\ last_call.op = "close_trade"

GateData ==
    LET buy == Favourable("BUY")
    IN  MarketData \cup
        {[buy EXCEPT !.regime = "UNKNOWN"],
         [buy EXCEPT !.regime = "HIGH_VOLATILITY", !.volatility_regime = "HIGH",
                     !.atr_percentile = 97],
         [buy EXCEPT !.strength = 80]}

NextBoundary ==
    \/ \E symbol \in Symbols, d \in GateData :
           evaluate_trade_opportunity(symbol, "5m", d)
    \/ \E order \in orders, db_ok \in BOOLEAN : execute_trade(order, db_ok)
    \/ \E symbol \in Symbols : execute_hold(symbol)
    \/ \E trade_id \in DOMAIN active_trades : close_trade(trade_id)

SpecBoundary == Init /\ [][NextBoundary]_vars

\* C15: every evaluate_trade_opportunity returns a HOLD or an EXECUTE_TRADE
\* decision and every execute_trade returns a boolean: no call ends in an
\* exception.
C15_NoExceptionCrosses ==
    /\ last_call.op = "execute_trade" => last_call.ret \in {"True", "False"}
    /\ last_call.op = "evaluate_trade_opportunity" => last_call.ret # "KeyError"

\* the timeframe the engine evaluates
LowerTf == "5m"

\* the HOLD reason of the first gate that data d fails for symbol, in the
\* order misalignment, no signal, confidence, unknown regime, abnormal
\* volatility (ATR percentile above 95 with no confirmed breakout), no valid
\* entry, risk-reward, sizing, risk manager; "EXECUTE_TRADE" if none fails
FirstFailingGate(symbol, d) ==
    LET sig == GenerateSignal(last_signal_time, symbol, LowerTf, d)
        entry_price == d.entry.entry_price
        stop_loss == calculate_hybrid_stop(d, entry_price, sig.signal_type).stop_loss
        targets == calculate_targets(entry_price, stop_loss, sig.signal_type,
                       get_structure_targets(d, sig.signal_type)).targets
        validation == ValidateTrade(RM, symbol, entry_price, stop_loss, sig.confidence)
    IN  IF ~d.aligned THEN "Multi-timeframe misalignment"
        ELSE IF ~sig.signal THEN "No valid signal generated"
        ELSE IF sig.confidence < min_confidence THEN "Confidence below threshold"
        ELSE IF sig.regime = "UNKNOWN" THEN "Market regime unknown"
        ELSE IF d.atr_percentile > 95 /\ ~d.breakout THEN "Abnormal volatility"
        ELSE IF ~d.entry.valid THEN "No valid entry setup"
        ELSE IF targets[1].rr_ratio[1] * 10 < min_rr_x10 * targets[1].rr_ratio[2]
        THEN "Risk-reward below minimum"
        ELSE IF ~calculate_quantity(total_capital, entry_price, stop_loss,
                                    sig.confidence).valid
        THEN "Position sizing failed"
        ELSE IF ~validation.allowed THEN "Risk check failed: " \o validation.reason
        ELSE "EXECUTE_TRADE"

C17_SignalGates ==
    [][\A a \in Analyses :
           (/\ last_call'.op = "generate_signal"
            /\ generate_signal(last_call'.sym, last_call'.tf, a))
               => LET symbol == last_call'.sym
                      timeframe == last_call'.tf
                      sig == GenerateSignal(last_signal_time, symbol, timeframe, a)
                      key == CooldownKey(symbol, timeframe)
                  IN  IF sig.signal
                      THEN /\ last_call'.ret = "Signal"
                           /\ sig.signal_type \in {"BUY", "SELL"}
                           /\ sig.confidence >= min_confidence
                           /\ sig.risk_reward_x10 >= min_rr_x10
                           /\ key \in DOMAIN last_signal_time'
                           /\ last_signal_time'[key] = now
                           /\ \A k \in DOMAIN last_signal_time' \ {key} :
                                  /\ k \in DOMAIN last_signal_time
                                  /\ last_signal_time'[k] = last_signal_time[k]
                      ELSE /\ last_call'.ret # "Signal"
                           /\ UNCHANGED last_signal_time]_vars

\* a Signal has just been returned, after time has passed, and its key
\* carries the time of the call
C17_Witness ==
    /\ last_call.op = "generate_signal"
    /\ last_call.ret = "Signal"
    /\ now > 0
    /\ CooldownKey(last_call.sym, last_call.tf) \in DOMAIN last_signal_time
    /\ last_signal_time[CooldownKey(last_call.sym, last_call.tf)] = now
    /\ Cardinality(DOMAIN last_signal_time) > 1

\* ------------------------------------------------------------------------
\* HybridStopLoss.calculate_hybrid_stop called directly (C18)
\* ------------------------------------------------------------------------

\* a call of a calculator: its arguments and what it returned
CalcCall(op, args, ret) ==
    [op |-> op, sym |-> "", tf |-> "", args |-> args, ret |-> ret]

call_calculate_hybrid_stop(d, entry_price, signal_type) ==
    /\ last_call' = CalcCall("calculate_hybrid_stop",
                             [entry_price |-> entry_price, signal_type |-> signal_type],
                             calculate_hybrid_stop(d, entry_price, signal_type))
    /\ UNCHANGED <<portfolio_vars, risk_vars, last_signal_time, lifecycle_vars,
                   now, orders, in_flight, trade_calls, emitted, halted_days, accepted_today>>

StopEntryPrices == {10000, 20000}

\* series of fewer than 20 rows and longer ones; ATRs, swing lows and highs
\* and VWAPs that put the candidate stops nearer than 0.5%, farther than 5%,
\* in between, and on the far side of the entry price
StopData ==
    [candles : {10, 250},
     atr : {20, 60, 200, 800},
     swing_low : {9000, 9500, 10000},
     swing_high : {10000, 10500, 11000},
     vwap : {9000, 9800, 10000, 10200, 11000}]

NextStop ==
    \E d \in StopData, entry_price \in StopEntryPrices, signal_type \in {"BUY", "SELL"} :
        call_calculate_hybrid_stop(d, entry_price, signal_type)

SpecStop == Init /\ [][NextStop]_vars

\* C18: for every output of calculate_hybrid_stop the distance between entry
\* and stop is at least 0.5% and at most 5% of the entry price, and is the
\* reported stop_distance_pct.
C18_StopDistanceBounds ==
    last_call.op = "calculate_hybrid_stop"
        => LET entry_price == last_call.args.entry_price
               ret == last_call.ret
               distance == Abs(entry_price - ret.stop_loss)
           IN  /\ distance * 200 >= entry_price
               /\ distance * 20 <= entry_price
               /\ distance * 100 * ret.stop_distance_pct[2]
                      = ret.stop_distance_pct[1] * entry_price
               /\ ret.stop_distance = distance

\* a SELL whose candidates all lie more than 5% away was given the 5% stop
C18_Witness ==
    /\ last_call.op = "calculate_hybrid_stop"
    /\ last_call.args.signal_type = "SELL"
    /\ last_call.ret.method = "SWING_ADJUSTED_MAX"
    /\ last_call.ret.stop_loss = 10500

\* ------------------------------------------------------------------------
\* TargetCalculator.calculate_targets called directly (C19)
\* ------------------------------------------------------------------------

call_calculate_targets(entry_price, stop_loss, signal_type, structure_targets) ==
    /\ last_call' = CalcCall("calculate_targets",
                             [entry_price |-> entry_price, stop_loss |-> stop_loss,
                              signal_type |-> signal_type,
                              structure_targets |-> structure_targets],
                             calculate_targets(entry_price, stop_loss, signal_type,
                                               structure_targets))
    /\ UNCHANGED <<portfolio_vars, risk_vars, last_signal_time, lifecycle_vars,
                   now, orders, in_flight, trade_calls, emitted, halted_days, accepted_today>>

TargetEntryPrices == {10000, 20000}

\* the stop-loss is entry_price plus one of these (a stop at the entry price
\* has no risk to scale)
StopOffsets == {-500, -200, -100, 100, 200, 500}

\* what _get_structure_targets finds: nothing, or levels on either side of
\* the entry prices
StructureTargets ==
    {<<>>, <<10100>>, <<10100, 10200>>, <<10100, 10300>>,
     <<9900>>, <<9900, 9800>>, <<9900, 9700>>, <<20300>>}

NextTargets ==
    \E entry_price \in TargetEntryPrices, offset \in StopOffsets,
       signal_type \in {"BUY", "SELL"}, structure_targets \in StructureTargets :
        call_calculate_targets(entry_price, entry_price + offset, signal_type,
                               structure_targets)

SpecTargets == Init /\ [][NextTargets]_vars

\* C19: calculate_targets puts Target 2 at entry + min_rr * risk for a BUY
\* and entry - min_rr * risk for a SELL, reports min_rr as its rr_ratio, and
\* books 50, 30 and 20 percent at the three tiers; a BUY at 100.00 with its
\* stop at 98.00 and min_rr 2.0 has Target 2 at 104.00.
C19_TargetTwo ==
    last_call.op = "calculate_targets"
        => LET args == last_call.args
               targets == last_call.ret.targets
               risk == Abs(args.entry_price - args.stop_loss)
           IN  /\ Len(targets) = 3
               /\ targets[2].price * 10 =
                      IF args.signal_type = "BUY"
                      THEN args.entry_price * 10 + min_rr_x10 * risk
                      ELSE args.entry_price * 10 - min_rr_x10 * risk
               /\ targets[2].rr_ratio[1] * 10 = min_rr_x10 * targets[2].rr_ratio[2]
               /\ <<targets[1].book_percentage, targets[2].book_percentage,
                    targets[3].book_percentage>> = <<50, 30, 20>>
               /\ targets[1].book_percentage + targets[2].book_percentage
                      + targets[3].book_percentage = 100
               /\ (/\ args.entry_price = 10000
                   /\ args.stop_loss = 9800
                   /\ args.signal_type = "BUY")
                      => targets[2].price = 10400

\* the BUY at 100.00 with its stop at 98.00 has been computed, with a
\* structure level as its first target
C19_Witness ==
    /\ last_call.op = "calculate_targets"
    /\ last_call.args = [entry_price |-> 10000, stop_loss |-> 9800,
                         signal_type |-> "BUY", structure_targets |-> <<10100, 10300>>]
    /\ last_call.ret.targets[1].price = 10100
    /\ last_call.ret.targets[2].price = 10400

\* ------------------------------------------------------------------------
\* QuantityCalculator.calculate_quantity called directly (C20)
\* ------------------------------------------------------------------------

call_calculate_quantity(capital, entry_price, stop_loss, confidence) ==
    /\ last_call' = CalcCall("calculate_quantity",
                             [total_capital |-> capital, entry_price |-> entry_price,
                              stop_loss |-> stop_loss, confidence |-> confidence],
                             calculate_quantity(capital, entry_price, stop_loss,
                                                confidence))
    /\ UNCHANGED <<portfolio_vars, risk_vars, last_signal_time, lifecycle_vars,
                   now, orders, in_flight, trade_calls, emitted, halted_days, accepted_today>>

QuantityCapitals == {500, 10000, 100000}

QuantityEntryPrices == {100, 1000, 20000}

\* the stop-loss is entry_price plus one of these
QuantityStopOffsets == {-50, -2, 0, 2, 50}

Confidences == {40, 70, 100}

NextQuantity ==
    \E capital \in QuantityCapitals, entry_price \in QuantityEntryPrices,
       offset \in QuantityStopOffsets, confidence \in Confidences :
        call_calculate_quantity(capital, entry_price, entry_price + offset, confidence)

SpecQuantity == Init /\ [][NextQuantity]_vars

\* C20: when the risk-based quantity floor(adjusted_risk / |entry - stop|)
\* costs more than max_position_value_pct of the capital, the quantity is
\* floor(cap / entry) and risk_amount is quantity * |entry - stop|; every
\* valid result has quantity >= 1, capital_required <= cap and
\* risk_pct <= 1.2 * risk_per_trade_pct; and for entry 100, stop 98, capital
\* 100000, risk 1% and confidence 100 the result is quantity 100, valid.
C20_QuantityCap ==
    last_call.op = "calculate_quantity"
        => LET args == last_call.args
               ret == last_call.ret
               risk_per_share == Abs(args.entry_price - args.stop_loss)
               multiplier == Min2(100, Max2(50, args.confidence))
               risk_quantity == (args.total_capital * risk_per_trade_pct_x10 * multiplier)
                                    \div (100000 * risk_per_share)
           IN  /\ (/\ risk_per_share # 0
                   /\ risk_quantity * args.entry_price * 10 > args.total_capital)
                      => /\ ret.quantity = args.total_capital \div (10 * args.entry_price)
                         /\ ret.risk_amount = ret.quantity * risk_per_share * 1000
               /\ ret.valid
                      => /\ ret.quantity >= 1
                         /\ ret.capital_required * 10 <= args.total_capital
                         /\ ret.risk_pct[1] * 100
                                <= 12 * risk_per_trade_pct_x10 * ret.risk_pct[2]
               /\ (args = [total_capital |-> 100000, entry_price |-> 100,
                           stop_loss |-> 98, confidence |-> 100])
                      => ret.quantity = 100 /\ ret.valid

\* the example has been computed: the risk-based quantity of 500 was cut to
\* the 100 shares that 10% of the capital buys
C20_Witness ==
    /\ last_call.op = "calculate_quantity"
    /\ last_call.args = [total_capital |-> 100000, entry_price |-> 100,
                         stop_loss |-> 98, confidence |-> 100]
    /\ last_call.ret.reason = "Position capped"
    /\ last_call.ret.risk_amount = 200 * 1000

\* ------------------------------------------------------------------------
\* the trailing stop of positions whose prices are not whole paise (C21)
\* ------------------------------------------------------------------------

\* money is counted in units of 0.0001 here: 0.01 is 100 units
FineCent == 100

\* entry prices just below and just above 0.50
FineEntryPrices == {4996, 5004}

\* prices 1% and 2.2% beyond the entry prices, on either side
FinePrices == {4890, 4950, 5060, 5110}

\* a position is opened with its stop-loss 0.01 behind the entry price and
\* its target 0.005 ahead of it, and its price is updated
NextTrail ==
    \/ \E symbol \in Symbols, position_type \in PositionTypes,
          entry_price \in FineEntryPrices :
           add_position(symbol, position_type, 1, entry_price,
                        IF position_type = "LONG" THEN entry_price - FineCent
                        ELSE entry_price + FineCent,
                        IF position_type = "LONG" THEN entry_price + FineCent \div 2
                        ELSE entry_price - FineCent \div 2,
                        TRUE)
    \/ \E symbol \in Symbols, price \in FinePrices :
           update_position_price_in(FineCent, symbol, price)

SpecTrail == Init /\ [][NextTrail]_vars

\* C21: update_position_price never loosens a stop-loss: the stop_loss of a
\* LONG position does not decrease and that of a SHORT position does not
\* increase.
C21_StopNeverLoosened ==
    [][\A symbol \in DOMAIN positions :
           (last_call'.op = "update_position_price" /\ symbol \in DOMAIN positions')
               => IF positions[symbol].position_type = "LONG"
                  THEN positions'[symbol].stop_loss >= positions[symbol].stop_loss
                  ELSE positions'[symbol].stop_loss <= positions[symbol].stop_loss]_vars

\* ------------------------------------------------------------------------
\* add_position called from two threads (C22)
\* ------------------------------------------------------------------------

\* the GUI thread and a scan/execution path
Threads == {"gui", "scan"}

\* add_position up to its persistence call: the checks for an existing
\* position and for available capital.  No lock is held, so another thread
\* may run before the call goes on
begin_add_position(thread, symbol, position_type, quantity, entry_price, stop_loss, target) ==
    /\ \A call \in in_flight : call.thread # thread
    /\ IF symbol \in DOMAIN positions \/ quantity * entry_price > available_capital
       THEN /\ last_call' = Call("add_position", symbol, "False")
            /\ UNCHANGED in_flight
       ELSE /\ in_flight' = in_flight \cup
                    {[thread |-> thread, symbol |-> symbol,
                      position_type |-> position_type, quantity |-> quantity,
                      entry_price |-> entry_price, stop_loss |-> stop_loss,
                      target |-> target]}
            /\ last_call' = Call("", "", "None")
    /\ UNCHANGED <<portfolio_vars, risk_vars, last_signal_time, lifecycle_vars,
                   now, orders, observer_vars>>

\* the rest of add_position: the persistence insert, the store of the
\* position dict under the symbol and the update of the capital
finish_add_position(call, db_ok) ==
    /\ call \in in_flight
    /\ in_flight' = in_flight \ {call}
    /\ IF db_ok
       THEN /\ db_trades < MaxDbTrades
            /\ AddPositionEffect(call.symbol, call.position_type, call.quantity,
                                 call.entry_price, call.stop_loss, call.target)
            /\ last_call' = Call("add_position", call.symbol, "True")
       ELSE /\ UNCHANGED portfolio_vars
            /\ last_call' = Call("add_position", call.symbol, "False")
    /\ UNCHANGED <<risk_vars, last_signal_time, lifecycle_vars, now, orders,
                   observer_vars>>

NextThreads ==
    \/ \E thread \in Threads, symbol \in Symbols, position_type \in PositionTypes,
          ltp \in EntryPrices :
           begin_add_position(thread, symbol, position_type, 10, ltp,
                              GuiStop(position_type, ltp),
                              GuiTarget(position_type, ltp))
    \/ \E call \in in_flight, db_ok \in BOOLEAN : finish_add_position(call, db_ok)

SpecThreads == Init /\ [][NextThreads]_vars

\* the investments of the open positions
OpenInvestment ==
    SumOver([symbol \in DOMAIN positions |-> positions[symbol].investment],
            DOMAIN positions)

\* C22: whatever the interleaving of add_position calls, a symbol's
\* investment is deducted from available_capital at most once (no position
\* is closed here, so available_capital is the initial capital less the open
\* investments) and invested_capital is the sum of the open positions'
\* investments.
C22_DeductedOnce ==
    /\ invested_capital = OpenInvestment
    /\ available_capital = initial_capital - OpenInvestment

\* the structure levels of a call that lie on the profit side of entry at a
\* distance between 1R and the minimum R
LevelsBetween1RAndMinR(args) ==
    LET risk == Abs(args.entry_price - args.stop_loss)
    IN  {l \in {args.structure_targets[i] : i \in DOMAIN args.structure_targets} :
             /\ IF args.signal_type = "BUY" THEN l > args.entry_price
                ELSE l < args.entry_price
             /\ Abs(l - args.entry_price) >= risk
             /\ Abs(l - args.entry_price) * 10 <= min_rr_x10 * risk}

\* C23: Target 1 of calculate_targets lies on the profit side of entry with
\* 1 <= rr_ratio <= min_rr, for BUY and SELL alike: it is the 1R level when
\* no structure level lies between 1R and the minimum R, and otherwise the
\* one of those levels that is nearest to entry.
C23_TargetOne ==
    last_call.op = "calculate_targets"
        => LET args == last_call.args
               t1 == last_call.ret.targets[1]
               risk == Abs(args.entry_price - args.stop_loss)
               levels == LevelsBetween1RAndMinR(args)
           IN  /\ IF args.signal_type = "BUY" THEN t1.price > args.entry_price
                  ELSE t1.price < args.entry_price
               /\ t1.rr_ratio[1] >= t1.rr_ratio[2]
               /\ t1.rr_ratio[1] * 10 <= min_rr_x10 * t1.rr_ratio[2]
               /\ IF levels = {}
                  THEN Abs(t1.price - args.entry_price) = risk
                  ELSE /\ t1.price \in levels
                       /\ \A l \in levels :
                              Abs(t1.price - args.entry_price)
                                  <= Abs(l - args.entry_price)

\* ------------------------------------------------------------------------
\* C24: capital conservation.  From a portfolio that starts without positions,
\* after any sequence of add_position, close_position and
\* update_position_price, available_capital + invested_capital equals
\* initial_capital + realized_pnl, and invested_capital equals the sum of
\* quantity * entry_price over the open positions.
\* ------------------------------------------------------------------------
C24_CapitalConservation ==
    /\ available_capital + invested_capital = initial_capital + realized_pnl
    /\ invested_capital =
           SumOver([symbol \in DOMAIN positions |->
                        positions[symbol].quantity * positions[symbol].entry_price],
                   DOMAIN positions)

\* a position was closed at a gain or a loss while another one is open and has
\* been marked to market
C24_Witness ==
    /\ realized_pnl # 0
    /\ \E symbol \in DOMAIN positions :
           positions[symbol].current_price # positions[symbol].entry_price

\* ------------------------------------------------------------------------
\* C25: a Trade never books more than it holds.  After enter_trade with
\* quantity q, followed by partial_exit and final_exit calls only,
\* 0 <= remaining_quantity <= q and booked_quantity <= q.
\* ------------------------------------------------------------------------
ExitCalls == {"partial_exit_1", "partial_exit_2", "partial_exit_3", "final_exit"}

C25_NeverOverbooked ==
    \A trade_id \in DOMAIN active_trades :
        LET t == active_trades[trade_id]
            calls == trade_calls[trade_id]
        IN  (/\ Len(calls) >= 1
             /\ calls[1] = "enter_trade"
             /\ \A i \in 2..Len(calls) : calls[i] \in ExitCalls)
                => /\ 0 <= t.remaining_quantity
                   /\ t.remaining_quantity <= t.quantity
                   /\ t.booked_quantity <= t.quantity

\* ------------------------------------------------------------------------
\* C26: the lifecycle manager and the portfolio agree.  In every state the
\* engine reaches through evaluate_trade_opportunity, execute_trade and
\* close_position, a symbol has an open position exactly when the lifecycle
\* manager holds an active Trade for it in stage MONITORING, PARTIAL_EXIT_1,
\* PARTIAL_EXIT_2 or TRAILING.
\* ------------------------------------------------------------------------
HoldingStages == {"MONITORING", "PARTIAL_EXIT_1", "PARTIAL_EXIT_2", "TRAILING"}

MaxReexecuteHistory == 9

\* the engine evaluating favourable data and executing the orders it
\* returned, any number of times each
NextReexecute ==
    \/ \E symbol \in Symbols :
           evaluate_trade_opportunity(symbol, "5m", Favourable("BUY"))
    \/ \E order \in orders, db_ok \in BOOLEAN :
           execute_trade_in(MaxReexecuteHistory, order, db_ok)
    \/ \E symbol \in Symbols, price \in EnginePrices : close_position(symbol, price)

SpecReexecute == Init /\ [][NextReexecute]_vars

\* the order was executed: its Trade saw one enter_trade and nothing else,
\* and the position it opened is still there
AlreadyExecuted(order) ==
    /\ order.trade_id \in DOMAIN active_trades
    /\ trade_calls[order.trade_id] = <<"enter_trade">>
    /\ order.symbol \in DOMAIN positions
    /\ positions[order.symbol].entry_price = order.entry_price
    /\ positions[order.symbol].quantity = order.quantity

C27_ReexecuteHarmless ==
    [][\A order \in orders, db_ok \in BOOLEAN :
           (AlreadyExecuted(order) /\ execute_trade_in(MaxReexecuteHistory, order, db_ok))
               => /\ last_call'.ret = "False"
                  /\ UNCHANGED <<active_trades, portfolio_vars, risk_vars>>]_vars

\* ------------------------------------------------------------------------
\* C28: the stop returned by calculate_hybrid_stop is on the protective side
\* of the entry: below the entry price for a BUY, above it for a SELL,
\* whatever the ATR, swing and VWAP candidates are.
\* ------------------------------------------------------------------------
C28_StopOnProtectiveSide ==
    last_call.op = "calculate_hybrid_stop"
        => IF last_call.args.signal_type = "BUY"
           THEN last_call.ret.stop_loss < last_call.args.entry_price
           ELSE last_call.ret.stop_loss > last_call.args.entry_price

\* ------------------------------------------------------------------------
\* C29: an EXECUTE_TRADE order is executable when it is produced.  The
\* execute_trade that directly follows the evaluation returning the order
\* returns True (the persistence layer working), and the order's
\* capital_required does not exceed the available_capital validate_trade
\* approved it against.
\* ------------------------------------------------------------------------
ManualQuantities == {100}
ManualPrices == {1000, 1950}

\* the engine evaluating favourable data and executing its orders, on a
\* portfolio the GUI also trades by hand
NextExecutable ==
    \/ \E symbol \in Symbols, position_type \in PositionTypes,
          quantity \in ManualQuantities, ltp \in EntryPrices :
           add_position(symbol, position_type, quantity, ltp,
                        GuiStop(position_type, ltp), GuiTarget(position_type, ltp),
                        TRUE)
    \/ \E symbol \in Symbols, price \in ManualPrices : close_position(symbol, price)
    \/ calculate_totals
    \/ \E symbol \in Symbols :
           evaluate_trade_opportunity(symbol, "5m", Favourable("BUY"))
    \/ \E order \in orders, db_ok \in BOOLEAN : execute_trade(order, db_ok)

SpecExecutable == Init /\ [][NextExecutable]_vars

\* the evaluation that just returned produced this order
JustProduced(order) ==
    /\ last_call.op = "evaluate_trade_opportunity"
    /\ last_call.ret = "EXECUTE_TRADE"
    /\ order.trade_id = next_trade_id - 1

NoStructureLevel == [Favourable("BUY") EXCEPT !.swing_highs = <<>>]

====
